---- MODULE Spec2Model ----
(***************************************************************************)
(* Model of the export dialog of src/export.py (class Export): the accept  *)
(* handler that drives the frame export loop, the reject handler that      *)
(* clears the exporting flag, the progress slot updateProgressBar, and the *)
(* collaborators the handler drives (FFmpegWriter w, the export timeline,  *)
(* the ExportStarted / ExportFrame / ExportEnded signals, time.time()).    *)
(*                                                                         *)
(* accept runs on the GUI thread.  Other handlers can only run where it    *)
(* hands control to the event loop: QCoreApplication.processEvents() at    *)
(* line 1073.  pc is the position of the accept handler:                   *)
(*   "idle"   no accept call is executing (the event loop dispatches)      *)
(*   "loop"   top of the for body for frame `frame`        (line 1036)     *)
(*   "yield"  inside processEvents() of a display tick     (line 1073)     *)
(*   "write"  about to track max_frame and write the frame (line 1076)     *)
(*   "close"  the for loop was left, about to close w      (line 1086)     *)
(*   "except" entering the except handler                  (line 1100)     *)
(*   "ended"  after the try statement                      (line 1135)     *)
(*   "done"   accept has returned after an attempt that reached the try    *)
(*                                                                         *)
(* Spec is the dialog with accept and reject; FairSpec adds that a running *)
(* accept goes on.  SettingsSpec adds the restore-defaults button, on      *)
(* short ranges.  EstimatorSpec applies progressstep (line 1027) and the   *)
(* digits computation (lines 1039-1053) alone, to long ranges; there pc is *)
(* "estimate", "tick" or "estimated".                                      *)
(***************************************************************************)
EXTENDS Integers, Sequences, FiniteSets, TLC

\* ------------------------------------------------------------- bounds
\* txtStartFrame and txtEndFrame take the values 1..MaxFrame each, or 1 and BigEnd
MaxFrame == 3
\* the end frame of the one long range 1..BigEnd, long enough for progressstep 2
BigEnd == 1501
\* time.time() returns a value in 0..MaxClock (model clock ticks)
MaxClock == 1
\* seconds per model clock tick
TickSeconds == 2
\* the sink can raise only in one of its first MaxFailIndex WriteFrame calls of an attempt
MaxFailIndex == 3
\* the estimator is applied to at most MaxTicks display ticks of a run
MaxTicks == 3

\* ------------------------------------------------------------- program constants
\* divisor of the progress step (line 1027)
ProgressDivisor == 1000
\* seconds without a progress event after which one is forced (line 1038)
DisplayInterval == 1
\* least and greatest number of digits after the decimal point (lines 1046-1051)
MinDigits == 1
MaxDigits == 5

VARIABLES
    \* ---- dialog (self.*)
    exporting,              \* self.exporting
    controls_enabled,       \* enabled state set by enableControls / disableControls
    export_button_visible,  \* self.export_button.isVisible()
    cancel_button_visible,  \* self.cancel_button.isVisible()
    close_button_visible,   \* self.close_button.isVisible()  (the Done button)
    progress_green,         \* the palette of progressExportVideo was turned green
    dialog,                 \* "open", or the result of done(): "accepted" / "rejected"
    txtStartFrame,          \* self.txtStartFrame.value()
    txtEndFrame,            \* self.txtEndFrame.value()
    progressValue,          \* self.progressExportVideo.value()
    progressDigits,         \* digits of the format last given to updateProgressBar
    windowTitle,            \* title_message last given to updateProgressBar
    \* ---- locals of accept
    pc,
    start_frame,            \* video_settings["start_frame"] = start_frame_export
    end_frame,              \* video_settings["end_frame"]   = end_frame_export
    frame,                  \* loop variable
    max_frame,
    progressstep,
    start_time_export,
    end_time_export,        \* Unbound until the first iteration assigns it
    last_exported_time,
    last_displayed_offset,  \* last_displayed_exported_portion * (end_frame - start_frame)
    format_digits,          \* digits in format_of_progress_string
    title_message,
    error,                  \* the exception caught at line 1100, NoError if none
    fail_kind,              \* the branch of lines 1106-1124 the except handler took, "none" before
    outcome,                \* how the attempt ended: "None" while it has not
    \* ---- collaborators
    clock,                  \* the last value time.time() returned
    writer,                 \* FFmpegWriter w: "none", "open", "closed"
    written,                \* frames passed to w.WriteFrame that returned, in order
    close_count,            \* number of w.Close() calls of the attempt
    cache_set,              \* timeline.SetCache(export_cache_object) was called
    timeline_close_count,   \* number of timeline.Close() calls of the attempt
    cache_clear_count,      \* number of timeline.ClearAllCache() calls of the attempt
    started_count,          \* ExportStarted emissions of the attempt
    ended_count,            \* ExportEnded emissions of the attempt
    frame_event_count,      \* ExportFrame emissions of the attempt
    last_events,            \* the last two ExportFrame emissions, oldest first
    cancel_prompt,          \* the reply to the cancel prompt shown inside the current
                            \* processEvents() call: "none" (no prompt), "No", "Yes"
    cancel_writes,          \* Len(written) when reject cleared exporting in the loop, -1 if it did not
    last_message,           \* the message box the latest accept call has shown: "none",
                            \* "invalid-range", "input-file", "replace-declined", "export-error"
    \* ---- settings
    restoring_defaults,     \* self.restoring_defaults
    export_settings         \* the project's "export_settings": "none" (None) or "saved"

vars == << exporting, controls_enabled, export_button_visible, cancel_button_visible,
           close_button_visible, progress_green, dialog, txtStartFrame, txtEndFrame,
           progressValue, progressDigits, windowTitle,
           pc, start_frame, end_frame, frame, max_frame, progressstep,
           start_time_export, end_time_export, last_exported_time,
           last_displayed_offset, format_digits, title_message, error, fail_kind,
           outcome, clock, writer, written, close_count, cache_set, timeline_close_count,
           cache_clear_count, started_count, ended_count, frame_event_count,
           last_events, cancel_prompt, cancel_writes, last_message,
           restoring_defaults, export_settings >>

dialogVars == << exporting, controls_enabled, export_button_visible, cancel_button_visible,
                 close_button_visible, progress_green, dialog, txtStartFrame, txtEndFrame >>
progressVars == << progressValue, progressDigits, windowTitle >>
loopVars == << start_frame, end_frame, frame, max_frame, progressstep,
               start_time_export, end_time_export, last_exported_time,
               last_displayed_offset, format_digits, title_message >>
sinkVars == << writer, written, close_count >>
timelineVars == << cache_set, timeline_close_count, cache_clear_count >>
signalVars == << started_count, ended_count, frame_event_count, last_events >>
settingsVars == << restoring_defaults, export_settings >>

\* ------------------------------------------------------------- values
Unbound == -1

\* the (start, end) pairs the two spin boxes are set to
Ranges == ((1..MaxFrame) \X (1..MaxFrame)) \cup {<< 1, BigEnd >>}

\* the markers the except handler looks for in str(e)
Markers == {"InvalidChannels", "InvalidSampleRate", "InvalidFormat",
            "InvalidCodec", "ErrorEncodingVideo"}

\* An exception: who raised it and which markers its message contains.
NoError == [by |-> "none", markers |-> {}]
SinkErrors == { [by |-> "sink", markers |-> m] :
                 m \in {{}} \cup {{x} : x \in Markers}
                          \cup {{"InvalidCodec", "ErrorEncodingVideo"}} }
\* UnboundLocalError of line 1089 when the loop body never ran
NameError == [by |-> "python", markers |-> {}]

NoTitle == [label |-> "", seconds |-> 0]

Max(a, b) == IF a >= b THEN a ELSE b

\* Python 3 round(n / d) for d > 0: round half to even
Round(n, d) ==
    LET q == n \div d
        r == n % d
    IN  IF 2 * r < d THEN q
        ELSE IF 2 * r > d THEN q + 1
        ELSE IF q % 2 = 0 THEN q ELSE q + 1

\* faulty variant: the quotient is used without the lower limit of 1
ProgressStepUnclamped(s, e) == Round(e - s, ProgressDivisor)

\* faulty variant: the range is divided by 2000
ProgressStepCoarseDivisor(s, e) == Max(1, Round(e - s, 2 * ProgressDivisor))

\* line 1027
ProgressStep(s, e) == Max(1, Round(e - s, ProgressDivisor))

\* faulty variant: range(start_frame, end_frame), the last frame is left out
FrameRangeExclusive(s, e) == s..(e - 1)

\* line 1035: range(start_frame, end_frame + 1)
FrameRange(s, e) == s..e

\* faulty variant: only a reversed range is refused
InvalidRangeReversed(s, e) == s > e

\* line 829
InvalidRange(s, e) == s = e

\* faulty variant: the elapsed-time part of the test is left out
DisplayTickStepOnly(f, step, now, last) == f % step = 0

\* line 1038; times in clock ticks
DisplayTick(f, step, now, last) ==
    (f % step = 0) \/ ((now - last) * TickSeconds > DisplayInterval)

RECURSIVE Pow10(_)
Pow10(n) == IF n = 0 THEN 1 ELSE 10 * Pow10(n - 1)

\* faulty variant: the displayed portion is refreshed on every iteration
SkippedTickPortionRefreshed(old, cur) == cur

\* lines 1038, 1052: last_displayed_exported_portion after an iteration that is
\* no display tick (the assignment of line 1052 is inside the if)
SkippedTickPortion(old, cur) == old

\* faulty variant: lines 1050-1052 (the upper limit) are left out
DigitsAfterDecimalpointNoUpperLimit(cur, last, span) ==
    IF cur - last > 0
    THEN IF \E d \in MinDigits..MaxDigits : (cur - last) * Pow10(d + 2) >= span
         THEN CHOOSE d \in MinDigits..MaxDigits :
                  /\ (cur - last) * Pow10(d + 2) >= span
                  /\ \A c \in MinDigits..(d - 1) : (cur - last) * Pow10(c + 2) < span
         ELSE MaxDigits + 1
    ELSE MinDigits

\* lines 1039-1051 with current_exported_portion = cur / span and
\* last_displayed_exported_portion = last / span:
\* ceil(-2 - log10(delta)) is the least integer d with delta * 10^(d+2) >= 1
DigitsAfterDecimalpoint(cur, last, span) ==
    IF cur - last > 0
    THEN IF (cur - last) * Pow10(MinDigits + 2) >= span THEN MinDigits
         ELSE IF \E d \in MinDigits..MaxDigits : (cur - last) * Pow10(d + 2) >= span
              THEN CHOOSE d \in MinDigits..MaxDigits :
                       /\ (cur - last) * Pow10(d + 2) >= span
                       /\ \A c \in MinDigits..(d - 1) : (cur - last) * Pow10(c + 2) < span
              ELSE MaxDigits
    ELSE MinDigits

\* faulty variant: the computed difference may come out too large instead, which
\* gives one digit less
DigitsComputedCoarser(cur, last, span) ==
    LET d == DigitsAfterDecimalpoint(cur, last, span)
    IN  IF cur - last > 0 /\ (cur - last) * Pow10(d + 2) = span
        THEN {d, Max(d - 1, MinDigits)}
        ELSE {d}

\* lines 1039-1051 as evaluated in double precision. The quotient of line 1039,
\* the difference of line 1040 and log10 are rounded: a difference that is
\* exactly 10^-(d+2) can be computed as slightly less than that, and ceil then
\* gives d + 1. Away from the powers of ten the rounding does not reach ceil.
DigitsComputed(cur, last, span) ==
    LET d == DigitsAfterDecimalpoint(cur, last, span)
    IN  IF cur - last > 0 /\ (cur - last) * Pow10(d + 2) = span
        THEN {d, IF d < MaxDigits THEN d + 1 ELSE MaxDigits}
        ELSE {d}

\* faulty variant: the elapsed time is taken as end_time_export - start_time_export
SecondsLeftSignLost(f, s, e, t0, now) == Round((now - t0) * TickSeconds * (f - e), f - s)

\* line 1056; times in clock ticks
SecondsLeft(f, s, e, t0, now) == Round((t0 - now) * TickSeconds * (f - e), f - s)

\* faulty variant: the test of line 1058 is left out
TitleAfterTickNoFinalizing(old, f, s, e, t0, now) ==
    IF (f - s) # 0 /\ (now - t0) # 0
    THEN [label |-> "Remaining", seconds |-> SecondsLeft(f, s, e, t0, now)]
    ELSE old

\* lines 1055-1061: the title_message after a display tick
TitleAfterTick(old, f, s, e, t0, now) ==
    IF (f - s) # 0 /\ (now - t0) # 0
    THEN IF f = e THEN [label |-> "Finalizing", seconds |-> 0]
         ELSE [label |-> "Remaining", seconds |-> SecondsLeft(f, s, e, t0, now)]
    ELSE old

\* faulty variant: the final title is labelled like the ones of the loop
ElapsedTitleRemaining(t0, now) ==
    [label |-> "Remaining", seconds |-> (now - t0) * TickSeconds]

\* lines 1089-1090
ElapsedTitle(t0, now) == [label |-> "Elapsed", seconds |-> (now - t0) * TickSeconds]

\* faulty variant: the flag is never looked at
BailOutNever(flag) == FALSE

\* faulty variant: the test of the flag is inverted
BailOutInverted(flag) == flag

\* lines 1082-1083
BailOut(flag) == ~flag

\* faulty variant: the final emission carries the frame after the last one written
FinalEventFrameNext(mf) == mf + 1

\* faulty variant: the final emission carries the frame before the last one written
FinalEventFramePrevious(mf) == mf - 1

\* line 1096: the frame of the final ExportFrame emission
FinalEventFrame(mf) == mf

\* faulty variant: the sample-rate branch reports the kind of the channels branch
ClassifyErrorSharedKind(markers) ==
    IF "InvalidChannels" \in markers THEN "invalid-channels"
    ELSE IF "InvalidSampleRate" \in markers THEN "invalid-channels"
    ELSE IF "InvalidFormat" \in markers THEN "invalid-format"
    ELSE IF "InvalidCodec" \in markers THEN "invalid-codec"
    ELSE IF "ErrorEncodingVideo" \in markers THEN "video-encode"
    ELSE "unknown"

\* lines 1106-1124: the branch of the if / elif chain taken for str(e)
ClassifyError(markers) ==
    IF "InvalidChannels" \in markers THEN "invalid-channels"
    ELSE IF "InvalidSampleRate" \in markers THEN "invalid-sample-rate"
    ELSE IF "InvalidFormat" \in markers THEN "invalid-format"
    ELSE IF "InvalidCodec" \in markers THEN "invalid-codec"
    ELSE IF "ErrorEncodingVideo" \in markers THEN "video-encode"
    ELSE "unknown"

\* faulty variant: disableControls leaves the controls enabled
DisableControlsNoop == TRUE

\* lines 781-789: the enabled state of the export controls after disableControls()
DisableControls == FALSE

\* faulty variant: enableControls leaves the controls disabled
EnableControlsNoop == FALSE

\* lines 791-799: the enabled state of the export controls after enableControls()
EnableControls == TRUE

\* faulty variant: the except handler retries the write
AfterExceptRetry == "write"

\* line 1135: where accept continues after the except handler
AfterExcept == "ended"

\* faulty variant: the release calls are missing
ReleasedAfterSkipped(n) == n

\* lines 1139, 1142: the number of releases after timeline.Close() / ClearAllCache()
ReleasedAfter(n) == n + 1

\* faulty variant: every attempt that did not fail counts as completed
EndOutcomeIgnoresFlag(prev, flag) == IF prev = "Failed" THEN "Failed" ELSE "Completed"

\* lines 1100, 1147-1148: how the attempt ended, given whether the except handler
\* ran (prev = "Failed") and the exporting flag read at line 1148
EndOutcome(prev, flag) ==
    IF prev = "Failed" THEN "Failed"
    ELSE IF flag THEN "Completed" ELSE "Cancelled"

\* faulty variant: the flag is not looked at
SaveSettingsAlways(flag, old) == "saved"

\* lines 1168-1202: the stored export_settings after save_settings(), given
\* self.restoring_defaults
SaveSettings(flag, old) == IF flag THEN old ELSE "saved"

\* the export button triggers accept only while it is shown and enabled (lines 98, 788)
AcceptEnabled == dialog = "open" /\ controls_enabled /\ export_button_visible

\* faulty variant: handlers are dispatched while WriteFrame is pending as well
DispatchingWhileWriting == pc \in {"idle", "yield", "write", "done"}

\* handlers are dispatched by the event loop: when no accept call is executing,
\* or inside processEvents()
Dispatching == pc \in {"idle", "yield", "done"}

\* faulty variant: the emission carries the frame before the current one
EventPreviousFrame(kind, title, f, digits) ==
    [kind |-> kind, label |-> title.label, frame |-> f - 1, digits |-> digits]

\* ExportFrame.emit -> record of the emission kept by the observer
Event(kind, title, f, digits) ==
    [kind |-> kind, label |-> title.label, frame |-> f, digits |-> digits]

Remember(evs, ev) == IF Len(evs) < 2 THEN Append(evs, ev) ELSE << evs[2], ev >>

\* ------------------------------------------------------------- initial state
\* after __init__ (lines 72-286)
Init ==
    /\ exporting = FALSE
    /\ controls_enabled = TRUE
    /\ export_button_visible = TRUE
    /\ cancel_button_visible = TRUE
    /\ close_button_visible = FALSE
    /\ progress_green = FALSE
    /\ dialog = "open"
    /\ txtStartFrame = 1
    /\ txtEndFrame = MaxFrame
    /\ progressValue = 0
    /\ progressDigits = MinDigits
    /\ windowTitle = NoTitle
    /\ pc = "idle"
    /\ start_frame = 0
    /\ end_frame = 0
    /\ frame = 0
    /\ max_frame = 0
    /\ progressstep = 1
    /\ start_time_export = 0
    /\ end_time_export = Unbound
    /\ last_exported_time = 0
    /\ last_displayed_offset = 0
    /\ format_digits = MinDigits
    /\ title_message = NoTitle
    /\ error = NoError
    /\ fail_kind = "none"
    /\ outcome = "None"
    /\ clock = 0
    /\ writer = "none"
    /\ written = << >>
    /\ close_count = 0
    /\ cache_set = FALSE
    /\ timeline_close_count = 0
    /\ cache_clear_count = 0
    /\ started_count = 0
    /\ ended_count = 0
    /\ frame_event_count = 0
    /\ last_events = << >>
    /\ cancel_prompt = "none"
    /\ cancel_writes = -1
    /\ last_message = "none"
    /\ restoring_defaults = FALSE
    /\ export_settings \in {"none", "saved"}

\* ------------------------------------------------------------- the user edits the range
\* txtStartFrame / txtEndFrame live in exportTabs, which disableControls disables
SetRangeWithin(ranges) ==
    /\ pc = "idle"
    /\ UNCHANGED cancel_prompt
    /\ UNCHANGED settingsVars
    /\ dialog = "open"
    /\ controls_enabled
    /\ \E r \in ranges :
          /\ txtStartFrame' = r[1]
          /\ txtEndFrame' = r[2]
    /\ UNCHANGED << exporting, controls_enabled, export_button_visible,
                    cancel_button_visible, close_button_visible, progress_green, dialog,
                    progressVars, pc, loopVars, error, fail_kind, outcome, clock, sinkVars,
                    timelineVars, signalVars, cancel_writes, last_message >>

SetRange == SetRangeWithin(Ranges)

\* ------------------------------------------------------------- accept
\* lines 801-838: equal bounds are refused
AcceptInvalidRange ==
    /\ Dispatching
    /\ UNCHANGED cancel_prompt
    /\ AcceptEnabled
    /\ export_settings' = SaveSettings(restoring_defaults, export_settings)
    /\ UNCHANGED restoring_defaults
    /\ InvalidRange(txtStartFrame, txtEndFrame)
    /\ progressValue' = txtStartFrame
    /\ last_message' = "invalid-range"
    /\ controls_enabled' = EnableControls
    /\ exporting' = FALSE
    /\ UNCHANGED << export_button_visible, cancel_button_visible, close_button_visible,
                    progress_green, dialog, txtStartFrame, txtEndFrame,
                    progressDigits, windowTitle, pc, loopVars, error, fail_kind, outcome, clock,
                    sinkVars, timelineVars, signalVars, cancel_writes >>

\* lines 801-902: the export path is an input file (880-888), or it exists and
\* the user declines to replace it (891-902)
AcceptEarlyReturn ==
    /\ Dispatching
    /\ UNCHANGED cancel_prompt
    /\ AcceptEnabled
    /\ export_settings' = SaveSettings(restoring_defaults, export_settings)
    /\ UNCHANGED restoring_defaults
    /\ ~InvalidRange(txtStartFrame, txtEndFrame)
    /\ progressValue' = txtStartFrame
    /\ \E m \in {"input-file", "replace-declined"} : last_message' = m
    /\ controls_enabled' = EnableControls
    /\ exporting' = FALSE
    /\ UNCHANGED << export_button_visible, cancel_button_visible, close_button_visible,
                    progress_green, dialog, txtStartFrame, txtEndFrame,
                    progressDigits, windowTitle, pc, loopVars, error, fail_kind, outcome, clock,
                    sinkVars, timelineVars, signalVars, cancel_writes >>

\* what lines 801-970 do on the way to the try statement
EnterTry ==
    /\ Dispatching
    /\ UNCHANGED cancel_prompt
    /\ AcceptEnabled
    /\ export_settings' = SaveSettings(restoring_defaults, export_settings)
    /\ UNCHANGED restoring_defaults
    /\ ~InvalidRange(txtStartFrame, txtEndFrame)
    /\ progressValue' = txtStartFrame
    /\ controls_enabled' = DisableControls
    /\ exporting' = TRUE
    /\ start_frame' = txtStartFrame
    /\ end_frame' = txtEndFrame
    /\ cache_set' = TRUE
    /\ max_frame' = 0
    /\ format_digits' = MinDigits
    /\ end_time_export' = Unbound
    /\ fail_kind' = "none"
    /\ outcome' = "None"
    /\ written' = << >>
    /\ close_count' = 0
    /\ timeline_close_count' = 0
    /\ cache_clear_count' = 0
    /\ ended_count' = 0
    /\ frame_event_count' = 0
    /\ last_events' = << >>
    /\ cancel_writes' = -1
    /\ last_message' = "none"
    /\ UNCHANGED << export_button_visible, cancel_button_visible, close_button_visible,
                    progress_green, dialog, txtStartFrame, txtEndFrame,
                    progressDigits, windowTitle >>

\* lines 972-1021 raise: creating, configuring or opening the writer fails
AcceptSetupFails ==
    /\ EnterTry
    /\ \E err \in SinkErrors : error' = err
    /\ pc' = "except"
    /\ writer' = "none"
    /\ started_count' = 0
    /\ UNCHANGED << frame, progressstep, start_time_export, last_exported_time,
                    last_displayed_offset, title_message, clock >>

\* lines 972-1035: the writer is opened, ExportStarted is emitted, the loop
\* variables are set and the for statement is entered
AcceptBegin ==
    /\ EnterTry
    /\ error' = NoError
    /\ writer' = "open"
    /\ started_count' = 1
    /\ title_message' = NoTitle
    /\ progressstep' = ProgressStep(txtStartFrame, txtEndFrame)
    /\ start_time_export' = clock
    /\ \E t \in clock..MaxClock :
          /\ last_exported_time' = t
          /\ clock' = t
    /\ last_displayed_offset' = 0
    /\ frame' = txtStartFrame
    /\ pc' = IF txtStartFrame \in FrameRange(txtStartFrame, txtEndFrame)
             THEN "loop" ELSE "close"

\* lines 1036-1070: top of the loop body for `frame`; on a display tick the
\* estimate is computed and ExportFrame is emitted (updateProgressBar runs)
LoopHead ==
    /\ pc = "loop"
    /\ UNCHANGED cancel_prompt
    /\ UNCHANGED settingsVars
    /\ \E now \in clock..MaxClock :
          /\ end_time_export' = now
          /\ IF DisplayTick(frame, progressstep, now, last_exported_time)
             THEN \E digits \in DigitsComputed(frame - start_frame, last_displayed_offset,
                                                end_frame - start_frame) :
                  LET cur == frame - start_frame
                      title == TitleAfterTick(title_message, frame, start_frame,
                                              end_frame, start_time_export, now)
                  IN  /\ last_displayed_offset' = cur
                      /\ format_digits' = digits
                      /\ \E t \in now..MaxClock :
                            /\ last_exported_time' = t
                            /\ clock' = t
                      /\ title_message' = title
                      /\ frame_event_count' = frame_event_count + 1
                      /\ last_events' = Remember(last_events,
                                                 Event("loop", title, frame, digits))
                      /\ progressValue' = frame
                      /\ progressDigits' = digits
                      /\ windowTitle' = title
                      /\ pc' = "yield"
             ELSE /\ clock' = now
                  /\ pc' = "write"
                  /\ last_displayed_offset' = SkippedTickPortion(last_displayed_offset,
                                                                  frame - start_frame)
                  /\ UNCHANGED << last_exported_time, format_digits, title_message,
                                  frame_event_count, last_events, progressVars >>
    /\ UNCHANGED << dialogVars, start_frame, end_frame, frame, max_frame,
                    progressstep, start_time_export, error, fail_kind, outcome, sinkVars,
                    timelineVars, started_count, ended_count, cancel_writes,
                    last_message >>

\* line 1073: processEvents() returns
ProcessEvents ==
    /\ pc = "yield"
    /\ cancel_prompt' = "none"
    /\ UNCHANGED settingsVars
    /\ pc' = "write"
    /\ UNCHANGED << dialogVars, progressVars, loopVars, error, fail_kind, outcome, clock,
                    sinkVars, timelineVars, signalVars, cancel_writes, last_message >>

\* lines 1075-1083 and the for statement: the frame is written, then the
\* exporting flag is checked, then the next frame is taken
WriteFrame ==
    /\ pc = "write"
    /\ UNCHANGED cancel_prompt
    /\ UNCHANGED settingsVars
    /\ max_frame' = frame
    /\ written' = Append(written, frame)
    /\ IF BailOut(exporting) THEN /\ pc' = "close"
                                  /\ frame' = frame
       ELSE IF frame + 1 \in FrameRange(start_frame, end_frame)
            THEN /\ pc' = "loop"
                 /\ frame' = frame + 1
            ELSE /\ pc' = "close"
                 /\ frame' = frame
    /\ UNCHANGED << dialogVars, progressVars, start_frame, end_frame, progressstep,
                    start_time_export, end_time_export, last_exported_time,
                    last_displayed_offset, format_digits, title_message, error, fail_kind,
                    outcome, clock, writer, close_count, timelineVars, signalVars,
                    cancel_writes, last_message >>

\* line 1079 raises
WriteFrameFails ==
    /\ pc = "write"
    /\ UNCHANGED cancel_prompt
    /\ UNCHANGED settingsVars
    /\ Len(written) < MaxFailIndex
    /\ max_frame' = frame
    /\ \E err \in SinkErrors : error' = err
    /\ pc' = "except"
    /\ UNCHANGED fail_kind
    /\ UNCHANGED << dialogVars, progressVars, start_frame, end_frame, frame,
                    progressstep, start_time_export, end_time_export,
                    last_exported_time, last_displayed_offset, format_digits,
                    title_message, outcome, clock, sinkVars, timelineVars,
                    signalVars, cancel_writes, last_message >>

\* lines 1085-1098: the writer is closed and the final ExportFrame is emitted;
\* line 1089 raises when no iteration has bound end_time_export
CloseWriter ==
    /\ pc = "close"
    /\ UNCHANGED cancel_prompt
    /\ UNCHANGED settingsVars
    /\ writer' = "closed"
    /\ close_count' = close_count + 1
    /\ UNCHANGED fail_kind
    /\ IF end_time_export = Unbound
       THEN /\ error' = NameError
            /\ pc' = "except"
            /\ UNCHANGED << title_message, frame_event_count, last_events,
                            progressVars >>
       ELSE LET title == ElapsedTitle(start_time_export, end_time_export)
            IN  /\ title_message' = title
                /\ frame_event_count' = frame_event_count + 1
                /\ last_events' = Remember(last_events,
                       Event("final", title, FinalEventFrame(max_frame), format_digits))
                /\ progressValue' = FinalEventFrame(max_frame)
                /\ progressDigits' = format_digits
                /\ windowTitle' = title
                /\ pc' = "ended"
                /\ error' = error
    /\ UNCHANGED << dialogVars, start_frame, end_frame, frame, max_frame, progressstep,
                    start_time_export, end_time_export, last_exported_time,
                    last_displayed_offset, format_digits, outcome, clock, written,
                    timelineVars, started_count, ended_count, cancel_writes,
                    last_message >>

\* lines 1100-1133: the error is classified and shown
ExceptHandler ==
    /\ pc = "except"
    /\ UNCHANGED cancel_prompt
    /\ UNCHANGED settingsVars
    /\ outcome' = "Failed"
    /\ last_message' = "export-error"
    /\ pc' = AfterExcept
    /\ fail_kind' = ClassifyError(error.markers)
    /\ UNCHANGED << dialogVars, progressVars, loopVars, error, clock, sinkVars,
                    timelineVars, signalVars, cancel_writes >>

\* lines 1135-1166: ExportEnded, release of the timeline, end of the export
EndExport ==
    /\ pc = "ended"
    /\ UNCHANGED cancel_prompt
    /\ UNCHANGED settingsVars
    /\ ended_count' = ended_count + 1
    /\ timeline_close_count' = ReleasedAfter(timeline_close_count)
    /\ cache_clear_count' = ReleasedAfter(cache_clear_count)
    /\ outcome' = EndOutcome(outcome, exporting)
    /\ \E show_finished_window \in BOOLEAN :
          IF show_finished_window /\ exporting
          THEN /\ cancel_button_visible' = FALSE
               /\ export_button_visible' = FALSE
               /\ close_button_visible' = TRUE
               /\ progress_green' = TRUE
               /\ dialog' = "open"
          ELSE /\ dialog' = "accepted"
               /\ UNCHANGED << cancel_button_visible, export_button_visible,
                               close_button_visible, progress_green >>
    /\ pc' = "done"
    /\ UNCHANGED << exporting, controls_enabled, txtStartFrame, txtEndFrame,
                    progressVars, loopVars, error, fail_kind, clock, sinkVars, cache_set,
                    started_count, frame_event_count, last_events, cancel_writes,
                    last_message >>

\* ------------------------------------------------------------- reject
\* faulty variant: every reply to the prompt resumes the export
DeclinedAlways(answer) == TRUE

\* line 1246: the reply that resumes the export
Declined(answer) == answer = "No"

\* lines 1239-1256: reject after its call of save_settings; answer is the user's
\* reply to the confirmation prompt
RejectRest ==
    /\ IF exporting /\ ~close_button_visible
       THEN \E answer \in {"Yes", "No"} :
               /\ cancel_prompt' = answer
               /\ IF Declined(answer)
                  THEN UNCHANGED << exporting, dialog, cancel_writes >>
                  ELSE /\ exporting' = FALSE
                       /\ dialog' = "rejected"
                       /\ cancel_writes' = IF pc = "yield" THEN Len(written)
                                           ELSE cancel_writes
       ELSE /\ exporting' = FALSE
            /\ dialog' = "rejected"
            /\ UNCHANGED << cancel_prompt, cancel_writes >>
    /\ UNCHANGED << controls_enabled, export_button_visible, cancel_button_visible,
                    close_button_visible, progress_green, txtStartFrame, txtEndFrame,
                    progressVars, pc, loopVars, error, fail_kind, outcome, clock, sinkVars,
                    timelineVars, signalVars, last_message >>

\* lines 1236-1256
Reject ==
    /\ Dispatching
    /\ dialog = "open"
    /\ export_settings' = SaveSettings(restoring_defaults, export_settings)
    /\ UNCHANGED restoring_defaults
    /\ RejectRest

\* lines 288-304: the restore-defaults button. The stored settings are cleared,
\* the flag is set and self.close() runs reject (QDialog.closeEvent), whose
\* save_settings call sees the flag. The dialog that the timer of line 304
\* opens is a new Export object.
RestoreDefaults ==
    /\ Dispatching
    /\ dialog = "open"
    /\ restoring_defaults' = TRUE
    /\ export_settings' = SaveSettings(TRUE, "none")
    /\ RejectRest

Next ==
    \/ SetRange
    \/ AcceptInvalidRange
    \/ AcceptEarlyReturn
    \/ AcceptSetupFails
    \/ AcceptBegin
    \/ LoopHead
    \/ ProcessEvents
    \/ WriteFrame
    \/ WriteFrameFails
    \/ CloseWriter
    \/ ExceptHandler
    \/ EndExport
    \/ Reject

Spec == Init /\ [][Next]_vars

\* accept keeps running once started: each of its steps is eventually taken
AcceptStep ==
    \/ LoopHead
    \/ ProcessEvents
    \/ WriteFrame
    \/ WriteFrameFails
    \/ CloseWriter
    \/ ExceptHandler
    \/ EndExport

FairSpec == Spec /\ WF_vars(AcceptStep)

\* ------------------------------------------------------------- properties
\* the frames s, s+1, ..., s+n-1 in this order
\* ------------------------------------------------------------- the dialog with its restore-defaults button
\* Short ranges only.
ShortRanges == (1..MaxFrame) \X (1..MaxFrame)

SetShortRange == SetRangeWithin(ShortRanges)

SettingsNext ==
    \/ SetShortRange
    \/ RestoreDefaults
    \/ AcceptInvalidRange
    \/ AcceptEarlyReturn
    \/ AcceptSetupFails
    \/ AcceptBegin
    \/ LoopHead
    \/ ProcessEvents
    \/ WriteFrame
    \/ WriteFrameFails
    \/ CloseWriter
    \/ ExceptHandler
    \/ EndExport
    \/ Reject

SettingsSpec == Init /\ [][SettingsNext]_vars

\* ------------------------------------------------------------- the estimator alone
\* Lines 1027 and 1039-1053 applied to inputs the small ranges of Spec do not
\* reach: spans around the rounding points of line 1027, reversed and empty
\* ranges, and spans of up to 10^(MaxDigits + 2) + 1 frames.

\* end_frame - start_frame around the points where round(x / 1000) changes
StepSpans ==
    LET half == ProgressDivisor \div 2
    IN  {1, 2, half - 1, half, half + 1, ProgressDivisor - 1, ProgressDivisor,
         3 * half - 1, 3 * half, 3 * half + 1, 5 * half,
         0, -1, -(3 * half)}

\* end_frame - start_frame around the points where the number of digits changes
DigitSpans ==
    UNION {{Pow10(k), Pow10(k) + 1} : k \in 1..(MaxDigits + 2)}

EstimatorRanges ==
    {<< s, s + span >> : s \in {1, MaxFrame}, span \in StepSpans \cup DigitSpans}

\* the frames a next display tick can fall on: how many iterations lie between
\* two display ticks depends on progressstep and on the clock
TickGaps == (0..MaxFrame) \cup {Pow10(MinDigits + 1)}

EstimatorInit ==
    /\ exporting = TRUE
    /\ controls_enabled = DisableControls
    /\ export_button_visible = TRUE
    /\ cancel_button_visible = TRUE
    /\ close_button_visible = FALSE
    /\ progress_green = FALSE
    /\ dialog = "open"
    /\ \E r \in EstimatorRanges :
          /\ txtStartFrame = r[1]
          /\ txtEndFrame = r[2]
          /\ start_frame = r[1]
          /\ end_frame = r[2]
          /\ frame = r[1]
          /\ progressValue = r[1]
    /\ progressDigits = MinDigits
    /\ windowTitle = NoTitle
    /\ pc = "estimate"
    /\ max_frame = 0
    /\ progressstep = 0
    /\ start_time_export = 0
    /\ end_time_export = Unbound
    /\ last_exported_time = 0
    /\ last_displayed_offset = 0
    /\ format_digits = MinDigits
    /\ title_message = NoTitle
    /\ error = NoError
    /\ fail_kind = "none"
    /\ outcome = "None"
    /\ clock = 0
    /\ writer = "open"
    /\ written = << >>
    /\ close_count = 0
    /\ cache_set = TRUE
    /\ timeline_close_count = 0
    /\ cache_clear_count = 0
    /\ started_count = 1
    /\ ended_count = 0
    /\ frame_event_count = 0
    /\ last_events = << >>
    /\ cancel_prompt = "none"
    /\ cancel_writes = -1
    /\ last_message = "none"
    /\ restoring_defaults = FALSE
    /\ export_settings = "saved"

\* line 1027
EstimateStep ==
    /\ pc = "estimate"
    /\ UNCHANGED cancel_prompt
    /\ UNCHANGED settingsVars
    /\ progressstep' = ProgressStep(start_frame, end_frame)
    /\ pc' = "tick"
    /\ UNCHANGED << dialogVars, progressVars, start_frame, end_frame, frame, max_frame,
                    start_time_export, end_time_export, last_exported_time,
                    last_displayed_offset, format_digits, title_message, error,
                    fail_kind, outcome, clock, sinkVars, timelineVars, signalVars,
                    cancel_writes, last_message >>

\* lines 1039-1053, 1064-1070, 1076: a display tick at frame f and the emission
\* that carries its format
EstimateTick ==
    /\ pc = "tick"
    /\ UNCHANGED cancel_prompt
    /\ UNCHANGED settingsVars
    /\ frame_event_count < MaxTicks
    /\ \E gap \in TickGaps :
          \E digits \in DigitsComputed(frame + gap - start_frame, last_displayed_offset,
                                      end_frame - start_frame) :
          LET f == frame + gap
              cur == f - start_frame
          IN  /\ f \in FrameRange(start_frame, end_frame)
              /\ frame' = f
              /\ max_frame' = f
              /\ last_displayed_offset' = cur
              /\ format_digits' = digits
              /\ frame_event_count' = frame_event_count + 1
              /\ last_events' = Remember(last_events,
                                         Event("loop", title_message, f, digits))
              /\ progressValue' = f
              /\ progressDigits' = digits
    /\ UNCHANGED << dialogVars, windowTitle, pc, start_frame, end_frame, progressstep,
                    start_time_export, end_time_export, last_exported_time,
                    title_message, error, fail_kind, outcome, clock, sinkVars,
                    timelineVars, started_count, ended_count, cancel_writes,
                    last_message >>

\* lines 1092-1098: the final emission carries the format the last display tick
\* left, or the one of line 970 when there was none
EstimateFinal ==
    /\ pc = "tick"
    /\ UNCHANGED cancel_prompt
    /\ UNCHANGED settingsVars
    /\ start_frame < end_frame
    /\ frame_event_count' = frame_event_count + 1
    /\ last_events' = Remember(last_events,
                               Event("final", ElapsedTitle(0, 0),
                                     FinalEventFrame(max_frame), format_digits))
    /\ progressValue' = FinalEventFrame(max_frame)
    /\ progressDigits' = format_digits
    /\ pc' = "estimated"
    /\ UNCHANGED << dialogVars, windowTitle, loopVars, error, fail_kind, outcome, clock,
                    sinkVars, timelineVars, started_count, ended_count, cancel_writes,
                    last_message >>

EstimatorNext ==
    \/ EstimateStep
    \/ EstimateTick
    \/ EstimateFinal

EstimatorSpec == EstimatorInit /\ [][EstimatorNext]_vars

\* ------------------------------------------------------------- claims
FramesFrom(s, n) == [i \in 1..n |-> s + i - 1]

LastEvent == last_events[Len(last_events)]

\* the state of the export attempt
Phase ==
    IF outcome # "None" THEN outcome
    ELSE IF pc = "idle" THEN "Idle" ELSE "Running"

Terminal == {"Completed", "Cancelled", "Failed"}

\* C1: when a run over a range with start_frame < end_frame leaves the loop with
\* the exporting flag still set and no exception, the sink has received exactly
\* the frames start_frame, start_frame+1, ..., end_frame, once each, in this order.
C1_AllFramesWrittenInOrder ==
    (pc \in {"close", "ended"} /\ exporting /\ error = NoError /\ start_frame < end_frame)
        => written = FramesFrom(start_frame, end_frame - start_frame + 1)

C1_Witness ==
    /\ pc = "ended"
    /\ exporting
    /\ error = NoError
    /\ progressstep > 1
    /\ Len(written) = end_frame - start_frame + 1

\* C2: on every path out of an attempt that opened the writer (completion,
\* cancellation, a raising WriteFrame) w.Close() has been called exactly once.
C2_SinkClosedExactlyOnce ==
    (pc = "done" /\ started_count = 1) => close_count = 1

\* C3: once the check after the write of frame k has seen the flag cleared, no
\* iteration starts any more, and the run ends with exactly start_frame..k written.
C3_CancelStopsAtFrame ==
    /\ pc = "loop" => exporting
    /\ ((pc \in {"close", "ended"} /\ ~exporting /\ error = NoError)
          \/ (pc = "done" /\ outcome = "Cancelled"))
         => /\ written = FramesFrom(start_frame, frame - start_frame + 1)
            /\ max_frame = frame

C3_Witness ==
    /\ pc = "done"
    /\ outcome = "Cancelled"
    /\ frame < end_frame
    /\ Len(written) = 2

\* C4: after reject has cleared the flag inside processEvents() at most one more
\* frame is written, the one whose iteration yielded, and then the loop is left.
C4_AtMostOneWriteAfterCancel ==
    cancel_writes # -1 =>
        /\ Len(written) <= cancel_writes + 1
        /\ pc \in {"yield", "write", "except", "close", "ended", "done"}
        /\ (pc \in {"close", "ended", "done"} /\ error = NoError)
              => Len(written) = cancel_writes + 1

C4_Witness ==
    /\ pc = "close"
    /\ cancel_writes = 1
    /\ written = << start_frame, start_frame + 1 >>
    /\ frame < end_frame

\* C5: when WriteFrame raises for frame f, exactly start_frame..f-1 are written,
\* nothing is written afterwards, and the attempt ends Failed.
C5_WriteFailureIsTerminal ==
    (error.by = "sink" /\ started_count = 1) =>
        /\ pc \in {"except", "ended", "done"}
        /\ written = FramesFrom(start_frame, frame - start_frame)
        /\ pc \in {"ended", "done"} => outcome = "Failed"

C5_Witness ==
    /\ pc = "done"
    /\ error.by = "sink"
    /\ started_count = 1
    /\ frame = start_frame + 2
    /\ Len(written) = 2

\* C6: the final ExportFrame emission carries the last frame that was written.
C6_FinalEventIsLastWritten ==
    (last_events # << >> /\ LastEvent.kind = "final") =>
        /\ written # << >>
        /\ LastEvent.frame = written[Len(written)]

\* the last frame written was not a display tick
C6_Witness ==
    /\ Len(last_events) = 2
    /\ last_events[2].kind = "final"
    /\ last_events[1].frame < last_events[2].frame
    /\ last_events[2].frame = written[Len(written)]

\* C7 as stated: each ExportFrame emission carries a greater frame than the one before.
C7_StrictlyIncreasing ==
    Len(last_events) = 2 => last_events[1].frame < last_events[2].frame

\* C7 amended: the frames of the loop emissions increase strictly; the final
\* emission carries a frame that is greater than, or equal to, that of the
\* emission before it.
C7_NonDecreasing ==
    Len(last_events) = 2 =>
        \/ last_events[1].frame < last_events[2].frame
        \/ /\ last_events[1].kind = "loop"
           /\ last_events[2].kind = "final"
           /\ last_events[1].frame = last_events[2].frame

C7_Witness ==
    /\ Len(last_events) = 2
    /\ last_events[1].kind = "loop"
    /\ last_events[2].kind = "final"
    /\ last_events[1].frame = last_events[2].frame

\* C8: with equal start and end frame no step of the dialog creates, opens or
\* writes the sink, emits a notification or sets the cache; accept leaves the
\* dialog idle with exporting = False and the controls enabled.
C8_EqualBoundsRejected ==
    [][ (Dispatching /\ AcceptEnabled /\ txtStartFrame = txtEndFrame) =>
          /\ pc' = pc
          /\ ~exporting'
          /\ controls_enabled'
          /\ UNCHANGED << sinkVars, timelineVars, signalVars >> ]_vars

C8_Witness ==
    /\ last_message = "invalid-range"
    /\ txtStartFrame = txtEndFrame
    /\ progressValue = txtStartFrame
    /\ pc = "idle"
    /\ ~exporting
    /\ controls_enabled
    /\ writer = "none"
    /\ started_count = 0

\* C9: an attempt goes Idle -> Running -> one of Completed, Cancelled, Failed;
\* a terminal outcome is never left, accept cannot be started while an attempt
\* runs or after it has ended, and every running attempt reaches its outcome.
C9_StateMachine ==
    /\ [](pc # "idle" => ~AcceptEnabled)
    /\ [][ Phase' # Phase =>
             \/ Phase = "Idle" /\ Phase' = "Running"
             \/ Phase = "Running" /\ Phase' \in Terminal ]_vars
    /\ (Phase = "Running" ~> (pc = "done" /\ Phase \in Terminal))

C9_Witness ==
    /\ pc = "done"
    /\ outcome = "Completed"
    /\ dialog = "open"
    /\ close_button_visible

C11_ReleasedBeforeErrorSurfaced ==
    (last_message = "export-error" /\ error.by = "sink") =>
        /\ writer # "open"
        /\ cache_clear_count = 1

\* the number of frames the range asks for
Requested == end_frame - start_frame + 1

C13_ProgressStepAtLeastOne ==
    pc # "estimate" =>
        /\ progressstep >= 1
        /\ (start_frame = 1 /\ end_frame = ProgressDivisor) => progressstep = 1
        /\ (end_frame - start_frame) * 2 <= ProgressDivisor => progressstep = 1

\* the quotient 500 / 1000 rounds to 0
C13_Witness ==
    /\ pc = "tick"
    /\ end_frame - start_frame = ProgressDivisor \div 2
    /\ progressstep = 1

\* C14: the digits carried by every ExportFrame emission, in the loop and after
\* it, and the digits held in format_of_progress_string, are integers in 1..5.
C14_DigitsWithinLimits ==
    /\ format_digits \in MinDigits..MaxDigits
    /\ progressDigits \in MinDigits..MaxDigits
    /\ \A i \in 1..Len(last_events) : last_events[i].digits \in MinDigits..MaxDigits

\* one frame of more than 10^7: the upper limit of line 1050 applies, and the
\* final emission carries it
C14_Witness ==
    /\ pc = "estimated"
    /\ end_frame - start_frame > Pow10(MaxDigits + 2)
    /\ last_displayed_offset = 1
    /\ LastEvent.kind = "final"
    /\ LastEvent.digits = MaxDigits

\* the kind each marker stands for
KindOfMarker ==
    [m \in Markers |->
        CASE m = "InvalidChannels" -> "invalid-channels"
          [] m = "InvalidSampleRate" -> "invalid-sample-rate"
          [] m = "InvalidFormat" -> "invalid-format"
          [] m = "InvalidCodec" -> "invalid-codec"
          [] m = "ErrorEncodingVideo" -> "video-encode"]

\* C15: a failed attempt has exactly one failure kind: the kind of a marker its
\* message contains (of the marker, when there is one only), different markers
\* having different kinds, and "unknown" when the message contains no marker.
\* No kind is assigned before the except handler has run.
C15_ExactlyOneKind ==
    /\ \A m1, m2 \in Markers : m1 # m2 => KindOfMarker[m1] # KindOfMarker[m2]
    /\ outcome # "Failed" => fail_kind = "none"
    /\ outcome = "Failed" =>
          /\ error.markers = {} => fail_kind = "unknown"
          /\ error.markers # {} => \E m \in error.markers : fail_kind = KindOfMarker[m]
          /\ \A m \in Markers : error.markers = {m} => fail_kind = KindOfMarker[m]

C15_Witness ==
    /\ pc = "ended"
    /\ error.by = "sink"
    /\ written # << >>
    /\ error.markers = {"InvalidSampleRate"}
    /\ fail_kind = "invalid-sample-rate"

\* C16: the iteration for frame f emits an ExportFrame, carrying f, if and only
\* if f mod progressstep = 0 or more than one second lies between the time read
\* at the top of the iteration and the last display tick (the start of the loop
\* when there was none); the rest of the iteration emits nothing.
C16_EventIffDisplayTick ==
    [][ /\ pc = "loop" =>
            LET due == \/ frame % progressstep = 0
                       \/ (end_time_export' - last_exported_time) * TickSeconds
                              > DisplayInterval
            IN  /\ due => /\ frame_event_count' = frame_event_count + 1
                          /\ last_events'[Len(last_events')].kind = "loop"
                          /\ last_events'[Len(last_events')].frame = frame
                /\ ~due => /\ frame_event_count' = frame_event_count
                           /\ last_events' = last_events
        /\ pc \in {"yield", "write"} =>
            /\ frame_event_count' = frame_event_count
            /\ last_events' = last_events ]_vars

\* a display tick by elapsed time alone
C16_Witness ==
    /\ pc = "yield"
    /\ frame % progressstep # 0
    /\ LastEvent.frame = frame
    /\ written # << >>

\* C17: the writer is created and the loop statement reached only for a range
\* with start_frame < end_frame.
C17_LoopOnlyWithStartBeforeEnd ==
    (writer # "none" \/ pc \in {"loop", "yield", "write", "close"}) =>
        start_frame < end_frame

\* C18: when the loop has ended without an exception, by exhausting the range
\* or by cancellation, the last ExportFrame emitted is the one final emission:
\* it is labelled "Elapsed", the emission before it is one of the loop, it
\* carries the last frame written, the writer is closed, and ExportEnded comes
\* only after it. No final emission exists while the loop runs or after an
\* exception.
C18_OneFinalElapsedEvent ==
    /\ (pc \in {"ended", "done"} /\ started_count = 1 /\ error = NoError) =>
          /\ last_events # << >>
          /\ LastEvent.kind = "final"
          /\ LastEvent.label = "Elapsed"
          /\ Len(last_events) = 2 => /\ last_events[1].kind = "loop"
                                     /\ last_events[1].label # "Elapsed"
          /\ written # << >>
          /\ LastEvent.frame = written[Len(written)]
          /\ writer = "closed"
          /\ close_count = 1
          /\ ended_count = (IF pc = "done" THEN 1 ELSE 0)
    /\ \A i \in 1..Len(last_events) :
          last_events[i].kind = "final" =>
              /\ i = Len(last_events)
              /\ pc \in {"ended", "done"}
              /\ error = NoError

\* the last frame written was not a display tick, ExportEnded not yet emitted
C18_Witness ==
    /\ pc = "ended"
    /\ exporting
    /\ ended_count = 0
    /\ Len(last_events) = 2
    /\ LastEvent.label = "Elapsed"
    /\ last_events[1].frame < LastEvent.frame
    /\ LastEvent.frame = end_frame

\* C19: while the iteration of frame f yields to the event loop after its
\* emission, the last emission carries f and exactly start_frame..f-1 are
\* written; frame f is still unwritten when processEvents has returned; and
\* when the cancel check leaves the loop, f is written.
C19_EmitThenYieldThenWrite ==
    /\ pc = "yield" =>
          /\ LastEvent.kind = "loop"
          /\ LastEvent.frame = frame
          /\ written = FramesFrom(start_frame, frame - start_frame)
    /\ pc = "write" => written = FramesFrom(start_frame, frame - start_frame)
    /\ (pc = "close" /\ start_frame < end_frame) =>
          written = FramesFrom(start_frame, frame - start_frame + 1)

C19_Witness ==
    /\ pc = "yield"
    /\ LastEvent.frame = frame
    /\ frame = start_frame + 2
    /\ written = << start_frame, start_frame + 1 >>

\* the step of accept that enters the loop (lines 1027-1035)
BeginStep == pc = "idle" /\ pc' \in {"loop", "close"}

\* the step of a loop iteration that is a display tick (lines 1038-1070)
DisplayTickStep == pc = "loop" /\ pc' = "yield"

\* C20 as stated: last_displayed_exported_portion and last_exported_time change
\* only on display ticks, and entering the loop sets them to 0 and to
\* start_time_export.
C20_ResetToStartTime ==
    [][ /\ BeginStep => /\ last_displayed_offset' = 0
                        /\ last_exported_time' = start_time_export'
        /\ (~BeginStep /\ ~DisplayTickStep) =>
              /\ last_displayed_offset' = last_displayed_offset
              /\ last_exported_time' = last_exported_time ]_vars

\* C20 amended: last_displayed_exported_portion and last_exported_time change
\* only on display ticks; entering the loop sets the portion to 0 and the
\* sample time to a clock reading of its own, taken at or after the one that
\* start_time_export holds.
C20_ResetToOwnClockReading ==
    [][ /\ BeginStep => /\ last_displayed_offset' = 0
                        /\ last_exported_time' >= start_time_export'
                        /\ last_exported_time' = clock'
        /\ (~BeginStep /\ ~DisplayTickStep) =>
              /\ last_displayed_offset' = last_displayed_offset
              /\ last_exported_time' = last_exported_time ]_vars

\* an iteration that was no display tick, in a run whose sample time was read
\* after its start time
C20_Witness ==
    /\ pc = "write"
    /\ frame % progressstep # 0
    /\ last_displayed_offset = frame - start_frame - 1
    /\ last_displayed_offset > 0
    /\ end_time_export = last_exported_time
    /\ last_exported_time > start_time_export

\* C21 as stated: every ExportFrame emitted by the loop for the frame end_frame
\* carries the "Finalizing" title.
C21_FinalFrameTickIsFinalizing ==
    \A i \in 1..Len(last_events) :
        (last_events[i].kind = "loop" /\ last_events[i].frame = end_frame) =>
            last_events[i].label = "Finalizing"

\* C21 amended: the ExportFrame emitted by the loop for the frame end_frame
\* carries the "Finalizing" title when the clock reading of that iteration
\* differs from start_time_export; when the two are equal the title is left as
\* it was, which with a clock that never goes back is the empty title of line
\* 1024, and it is never a "Remaining" title.
C21_FinalizingWhenTimeElapsed ==
    \A i \in 1..Len(last_events) :
        (last_events[i].kind = "loop" /\ last_events[i].frame = end_frame) =>
            last_events[i].label =
                (IF end_time_export # start_time_export THEN "Finalizing" ELSE "")

C21_Witness ==
    /\ pc = "yield"
    /\ frame = end_frame
    /\ end_time_export # start_time_export
    /\ LastEvent.frame = end_frame
    /\ LastEvent.label = "Finalizing"

\* C22: after a display tick at a frame past start_frame with a clock reading
\* different from start_time_export, seconds_left of line 1056 equals
\* round(elapsed * frames_remaining / frames_done), is not negative, is 0 at
\* end_frame, and is what a "Remaining" title carries; at start_frame or with
\* no time elapsed no estimate is made (no division is evaluated) and the title
\* stays empty.
C22_SecondsLeft ==
    pc = "yield" =>
        LET elapsed == (end_time_export - start_time_export) * TickSeconds
            frames_remaining == end_frame - frame
            frames_done == frame - start_frame
        IN  IF frames_done # 0 /\ elapsed # 0
            THEN LET seconds_left == SecondsLeft(frame, start_frame, end_frame,
                                                 start_time_export, end_time_export)
                 IN  /\ seconds_left = Round(elapsed * frames_remaining, frames_done)
                     /\ seconds_left >= 0
                     /\ frame = end_frame => seconds_left = 0
                     /\ frame # end_frame =>
                           title_message = [label |-> "Remaining",
                                            seconds |-> seconds_left]
            ELSE title_message = NoTitle

C22_Witness ==
    /\ pc = "yield"
    /\ frame > start_frame
    /\ frame < end_frame
    /\ end_time_export > start_time_export
    /\ title_message.label = "Remaining"
    /\ title_message.seconds > 0

\* the step of the estimator that is a display tick
TickStep == pc = "tick" /\ pc' = "tick" /\ frame_event_count' # frame_event_count

\* the least d in 1..5 with k / span >= 10^-(d+2), and 5 when there is none
LeastDigits(k, span) ==
    IF \E d \in MinDigits..MaxDigits : k * Pow10(d + 2) >= span
    THEN CHOOSE d \in MinDigits..MaxDigits :
             /\ k * Pow10(d + 2) >= span
             /\ \A c \in MinDigits..(d - 1) : k * Pow10(c + 2) < span
    ELSE MaxDigits

\* C23 as stated: a display tick whose fraction exceeds the last displayed one by
\* k / span sets the digits to 1 when k <= 0 and otherwise to the least d in
\* 1..5 with k / span >= 10^-(d+2), or 5 when there is none.
C23_LeastDigitsExactly ==
    [][ TickStep =>
          LET k == (frame' - start_frame) - last_displayed_offset
              span == end_frame - start_frame
          IN  format_digits' = (IF k <= 0 THEN MinDigits ELSE LeastDigits(k, span)) ]_vars

\* C23 amended: the digits are 1 when k <= 0; otherwise they are the least d in
\* 1..5 with k / span >= 10^-(d+2) (5 when there is none), except that when
\* k / span is exactly 10^-(d+2) they may also be d + 1, at most 5. No smaller
\* positive difference ever gets fewer digits than the one of the tick.
C23_LeastDigitsUpToRounding ==
    [][ TickStep =>
          LET k == (frame' - start_frame) - last_displayed_offset
              span == end_frame - start_frame
              least == LeastDigits(k, span)
          IN  /\ k <= 0 => format_digits' = MinDigits
              /\ k > 0 =>
                    /\ format_digits' \in {least, least + 1}
                    /\ format_digits' <= MaxDigits
                    /\ format_digits' # least => k * Pow10(least + 2) = span
                    /\ \A j \in 1..(k - 1) :
                          \A smaller \in DigitsComputed(last_displayed_offset + j,
                                                        last_displayed_offset, span) :
                              smaller >= format_digits' ]_vars

\* a tick 100 frames into a range of 10^4 + 1 frames and one at the next frame:
\* the difference is exactly 10^-4 and the tick gets 3 digits
C23_Witness ==
    /\ pc = "tick"
    /\ end_frame - start_frame = Pow10(MinDigits + 3)
    /\ Len(last_events) = 2
    /\ last_events[1].frame = start_frame + Pow10(MinDigits + 1)
    /\ LastEvent.frame = last_events[1].frame + 1
    /\ last_displayed_offset = LastEvent.frame - start_frame
    /\ LastEvent.digits = MinDigits + 2

\* C24: an iteration reaches processEvents() exactly when it has emitted its
\* ExportFrame, before the frame is written; from there the loop goes on only
\* to the write of the same frame. The dialog's state, which only handlers of
\* the user's actions change, is left alone by every step of the loop that is
\* not inside processEvents().
C24_YieldOncePerDisplayTick ==
    [][ /\ pc = "loop" =>
              /\ pc' \in {"yield", "write"}
              /\ (pc' = "yield") <=> (frame_event_count' = frame_event_count + 1)
              /\ dialogVars' = dialogVars
        /\ pc = "yield" =>
              /\ written' = written
              /\ frame' = frame
              /\ frame_event_count' = frame_event_count
              /\ \/ pc' = "write" /\ dialogVars' = dialogVars
                 \/ pc' = "yield"
        /\ pc = "write" =>
              /\ pc' # "yield"
              /\ dialogVars' = dialogVars ]_vars

\* reject has run inside processEvents() of the second frame
C24_Witness ==
    /\ pc = "yield"
    /\ frame = start_frame + 1
    /\ written = << start_frame >>
    /\ ~exporting
    /\ dialog = "rejected"
    /\ cancel_writes = 1

\* the frames of the range whose iteration is a display tick by the step test
StepTicks == {f \in FrameRange(start_frame, end_frame) : f % progressstep = 0}

\* C25: once line 1027 has run, the number of frames f of the range with
\* f mod progressstep = 0 is at most 1501, and at most 1251 for a range of 1500
\* frames or more, however long the range is.
C25_StepTicksBounded ==
    (pc = "tick" /\ frame_event_count = 0) =>
        /\ Cardinality(StepTicks) <= ProgressDivisor + ProgressDivisor \div 2 + 1
        /\ 2 * (end_frame - start_frame) >= 3 * ProgressDivisor =>
              Cardinality(StepTicks) <= ProgressDivisor + ProgressDivisor \div 4 + 1

\* more than 10^7 frames, 1000 of them display ticks by the step test
C25_Witness ==
    /\ pc = "tick"
    /\ frame_event_count = 0
    /\ start_frame = 1
    /\ end_frame - start_frame > Pow10(MaxDigits + 2)
    /\ progressstep = Pow10(MaxDigits - 1)
    /\ Cardinality(StepTicks) = ProgressDivisor

\* C26: once restore_defaults has cleared the stored settings and set the flag,
\* no step writes them back: not the reject that self.close() runs, not a later
\* reject or accept of this dialog. The flag stays set, and the stored settings
\* stay cleared.
C26_ClearedSettingsStayCleared ==
    /\ [](restoring_defaults => export_settings = "none")
    /\ [][ restoring_defaults =>
              /\ restoring_defaults'
              /\ export_settings' = export_settings ]_vars

\* settings that an accept had saved were cleared during the export, and the
\* reject that closed the finished dialog has called save_settings since
C26_Witness ==
    /\ restoring_defaults
    /\ export_settings = "none"
    /\ pc = "done"
    /\ outcome = "Completed"
    /\ dialog = "rejected"
    /\ close_button_visible

\* C27: the dialog shows its finished presentation (Done button shown, export
\* and cancel buttons hidden, progress bar green) only after an attempt that
\* wrote every frame of the range and closed the writer.
C27_FinishedOnlyAfterFullExport ==
    (close_button_visible /\ progress_green) =>
        /\ ~export_button_visible
        /\ ~cancel_button_visible
        /\ outcome = "Completed"
        /\ written = FramesFrom(start_frame, Requested)
        /\ writer = "closed"

\* C28: ExportStarted is emitted at most once per attempt and before any
\* ExportFrame, ExportEnded at most once and only after ExportStarted, and
\* exactly once by the time accept has left the try statement.
C28_StartedFramesEnded ==
    /\ started_count <= 1
    /\ ended_count <= 1
    /\ frame_event_count > 0 => started_count = 1
    /\ ended_count = 1 => started_count = 1
    /\ ended_count = (IF pc = "done" THEN 1 ELSE 0)

\* C29: while an export runs and the Done button is hidden, reject asks; on
\* "Yes" the flag is cleared and the dialog rejected, on "No" the flag stays
\* set, the dialog stays open and processEvents() returns to a loop that writes
\* on. The flag of a running export is cleared in no other way. When no export
\* runs or the Done button is shown, reject rejects the dialog without asking.
C29_CancelOnlyOnConfirmation ==
    /\ [](/\ cancel_prompt # "none" => pc = "yield"
          /\ cancel_prompt = "Yes" =>
                /\ ~exporting
                /\ dialog = "rejected"
                /\ cancel_writes = Len(written)
          /\ cancel_prompt = "No" => exporting /\ dialog = "open"
          /\ (pc \in {"loop", "yield", "write", "close", "ended"} /\ ~exporting) =>
                cancel_writes # -1)
    /\ [][ /\ (pc = "yield" /\ cancel_prompt = "No" /\ pc' = "write") =>
                 /\ exporting'
                 /\ dialog' = "open"
           /\ (pc = "write" /\ exporting /\ error' = NoError
                 /\ frame < end_frame) =>
                 /\ pc' = "loop"
                 /\ frame' = frame + 1
           /\ (dialog = "open" /\ dialog' = "rejected") =>
                 /\ ~exporting'
                 /\ cancel_prompt' = (IF exporting /\ ~close_button_visible
                                      THEN "Yes" ELSE cancel_prompt) ]_vars

\* the user has declined at the first frame's yield; the export goes on
C29_Witness ==
    /\ pc = "yield"
    /\ frame = start_frame
    /\ frame < end_frame
    /\ cancel_prompt = "No"
    /\ exporting
    /\ dialog = "open"

====
